---- MODULE Spec2Model ----
(***************************************************************************)
(* Per-frame input-state tracker of rugfx.                                 *)
(*                                                                         *)
(* The repository holds two generations of the raw input state:           *)
(*   - src/input/raw.rs : RawInputManager<H> / RawInputManagerState, the   *)
(*     handler-based variant, driven by the winit ApplicationHandler       *)
(*     callbacks (variant = "handler");                                    *)
(*   - src/raw.rs : RawInputManager, the event-passing variant, driven by  *)
(*     pass_event (variant = "event").                                     *)
(* Both are modelled over one state record; the variant is fixed at        *)
(* construction.  Floating point accumulators (mouse_motion f64,           *)
(* mouse_wheel_delta f32) are modelled over small integers, on which the   *)
(* additions of the model are exact as they are in IEEE arithmetic for     *)
(* these magnitudes.  Instants are integer clock readings.                 *)
(***************************************************************************)
EXTENDS Integers, FiniteSets, Sequences, TLC

VARIABLES
    variant,     \* which generation of the raw input manager is running
    raw,         \* the RawInputManagerState / RawInputManager fields
    pc,          \* position of the host event loop / of the running callback
    last_event,  \* the event or callback step dispatched last
    is_update,   \* value returned by the last pass_event (event variant)
    press_delivered, \* identities the host sent a press for since the
                     \* application last looked at the state
    im,          \* the scalar fields of InputManager (src/input_manager.rs)
    bindings,    \* the Bindings table (key_map)
    handler,     \* the application's RawInputHandler (examples/simple_raw.rs)
    ticker,      \* a Ticker the application owns (src/input/ticker.rs)
    tick_log,    \* the clock the ticker reads, and the ticks it has reported
    twin         \* an event-passing RawInputManager (src/raw.rs) fed the same
                 \* events as raw, and the releases the host has sent

vars == <<variant, raw, pc, last_event, is_update, press_delivered, im,
          bindings, handler, ticker, tick_log, twin>>

----------------------------------------------------------------------------
(* Bounds of the model *)

\* largest clock reading (Instant::now) the model hands out
MaxNow == 2
\* largest |component| mouse_motion is allowed to accumulate to
MaxMotion == 4
\* largest |component| mouse_wheel_delta is allowed to accumulate to
MaxWheel == 1
\* longest binding list an action is given
MaxBindings == 3
\* largest clock reading a ticker is given
MaxTickNow == 5

\* physical key codes and mouse buttons the host delivers
KeyCodes == {"KeyA"}
MouseButtons == {"Left"}
\* device-relative motion deltas, absolute cursor positions, wheel deltas,
\* window sizes the host delivers
MotionDeltas == {<<1, 2>>, <<3, 4>>}
CursorPositions == {<<5, 7>>, <<2, 3>>}
LineDeltas == {<<0, 1>>, <<1, 0>>}
PixelDeltas == {<<0, 1>>}
WindowSizes == {<<800, 600>>, <<640, 480>>}

----------------------------------------------------------------------------
(* Input identity: src/input.rs enum Input *)

Key(code) == <<"Key", code>>
Mouse(button) == <<"Mouse", button>>
Inputs == {Key(c) : c \in KeyCodes} \cup {Mouse(b) : b \in MouseButtons}

None == <<"None">>
Some(v) == <<"Some", v>>

ElementState == {"Pressed", "Released"}

(* winit events, as far as the raw input managers distinguish them *)
KeyboardInput(code, st) ==
    [kind |-> "KeyboardInput", input |-> Key(code), state |-> st]
MouseInput(button, st) ==
    [kind |-> "MouseInput", input |-> Mouse(button), state |-> st]
CloseRequested == [kind |-> "CloseRequested"]
Resized(size) == [kind |-> "Resized", size |-> size]
CursorMoved(position) == [kind |-> "CursorMoved", position |-> position]
MouseWheelLine(d) == [kind |-> "MouseWheel", unit |-> "LineDelta", delta |-> d]
MouseWheelPixel(d) == [kind |-> "MouseWheel", unit |-> "PixelDelta", delta |-> d]
Focused(f) == [kind |-> "Focused", focused |-> f]
MouseMotion(d) == [kind |-> "MouseMotion", delta |-> d]
\* a device event other than MouseMotion (e.g. Button, Added)
OtherDeviceEvent == [kind |-> "OtherDevice"]

InputEvents ==
    {KeyboardInput(c, st) : c \in KeyCodes, st \in ElementState}
    \cup {MouseInput(b, st) : b \in MouseButtons, st \in ElementState}

WindowEvents ==
    InputEvents
    \cup {CloseRequested}
    \cup {Resized(s) : s \in WindowSizes}
    \cup {CursorMoved(p) : p \in CursorPositions}
    \cup {MouseWheelLine(d) : d \in LineDeltas}
    \cup {MouseWheelPixel(d) : d \in PixelDeltas}
    \cup {Focused(f) : f \in BOOLEAN}

DeviceEvents == {MouseMotion(d) : d \in MotionDeltas} \cup {OtherDeviceEvent}

Abs(n) == IF n < 0 THEN -n ELSE n

\* Instant::saturating_duration_since
saturating_duration_since(later, earlier) ==
    IF later >= earlier THEN later - earlier ELSE 0

----------------------------------------------------------------------------
(* The state record: Default for RawInputManagerState / RawInputManager.   *)
(* start and last_update are two successive clock readings.                *)

\* variant of RawDefault whose update_delta is the time between the readings
RawDefault_delta_since_start(t0, t1) ==
    [ keys_held |-> {}, keys_pressed |-> {}, keys_released |-> {},
      mouse_motion |-> <<0, 0>>, mouse_position |-> <<0, 0>>,
      mouse_wheel_delta |-> <<0, 0>>,
      start |-> t0, last_update |-> t1, update_delta |-> t1 - t0,
      resize |-> None, close_requested |-> FALSE, loop_exiting |-> FALSE ]

RawDefault(t0, t1) ==
    [ keys_held |-> {}, keys_pressed |-> {}, keys_released |-> {},
      mouse_motion |-> <<0, 0>>, mouse_position |-> <<0, 0>>,
      mouse_wheel_delta |-> <<0, 0>>,
      start |-> t0, last_update |-> t1, update_delta |-> 0,
      resize |-> None, close_requested |-> FALSE, loop_exiting |-> FALSE ]

----------------------------------------------------------------------------
(* update_input: identical in both variants *)

\* variant of update_input whose Released arm leaves keys_held alone
update_input_keeps_held(s, input, state) ==
    IF state = "Pressed"
    THEN [s EXCEPT !.keys_held = @ \cup {input},
                   !.keys_pressed = @ \cup {input}]
    ELSE [s EXCEPT !.keys_released = @ \cup {input}]

\* variant of update_input whose Pressed arm also marks the input released
update_input_press_marks_released(s, input, state) ==
    IF state = "Pressed"
    THEN [s EXCEPT !.keys_held = @ \cup {input},
                   !.keys_pressed = @ \cup {input},
                   !.keys_released = @ \cup {input}]
    ELSE [s EXCEPT !.keys_held = @ \ {input},
                   !.keys_released = @ \cup {input}]

\* variant of update_input whose Pressed arm leaves keys_held alone
update_input_press_not_held(s, input, state) ==
    IF state = "Pressed"
    THEN [s EXCEPT !.keys_pressed = @ \cup {input}]
    ELSE [s EXCEPT !.keys_held = @ \ {input},
                   !.keys_released = @ \cup {input}]

\* variant of update_input whose Released arm ignores an input not held
update_input_release_if_held(s, input, state) ==
    IF state = "Pressed"
    THEN [s EXCEPT !.keys_held = @ \cup {input},
                   !.keys_pressed = @ \cup {input}]
    ELSE IF input \in s.keys_held
         THEN [s EXCEPT !.keys_held = @ \ {input},
                        !.keys_released = @ \cup {input}]
         ELSE s

\* variant of update_input whose Pressed arm drops every other held input
update_input_exclusive(s, input, state) ==
    IF state = "Pressed"
    THEN [s EXCEPT !.keys_held = {input},
                   !.keys_pressed = @ \cup {input}]
    ELSE [s EXCEPT !.keys_held = @ \ {input},
                   !.keys_released = @ \cup {input}]

update_input(s, input, state) ==
    IF state = "Pressed"
    THEN [s EXCEPT !.keys_held = @ \cup {input},
                   !.keys_pressed = @ \cup {input}]
    ELSE [s EXCEPT !.keys_held = @ \ {input},
                   !.keys_released = @ \cup {input}]

\* variant of process_lost_focus that reports the dropped keys as released
process_lost_focus_releases(s) ==
    [s EXCEPT !.keys_held = {}, !.keys_released = @ \cup s.keys_held]

\* variant of process_lost_focus that leaves keys_held alone
process_lost_focus_keeps_held(s) == s

\* RawInputManager::process_lost_focus and the Focused(false) arm
process_lost_focus(s) == [s EXCEPT !.keys_held = {}]

\* RawInputManager::process_loop_exiting and ApplicationHandler::exiting
process_loop_exiting(s) == [s EXCEPT !.loop_exiting = TRUE]

\* variant of process_window_event whose Resized arm keeps a pending size
process_window_event_first_resize(s, event) ==
    CASE event.kind = "KeyboardInput" ->
            update_input(s, event.input, event.state)
      [] event.kind = "CloseRequested" ->
            [s EXCEPT !.close_requested = TRUE]
      [] event.kind = "Resized" ->
            [s EXCEPT !.resize = IF @ = None THEN Some(event.size) ELSE @]
      [] event.kind = "CursorMoved" ->
            [s EXCEPT !.mouse_position = event.position]
      [] event.kind = "MouseWheel" /\ event.unit = "LineDelta" ->
            [s EXCEPT !.mouse_wheel_delta =
                          <<@[1] + event.delta[1], @[2] + event.delta[2]>>]
      [] event.kind = "MouseInput" ->
            update_input(s, event.input, event.state)
      [] event.kind = "Focused" /\ ~event.focused ->
            process_lost_focus(s)
      [] OTHER -> s

\* variant of process_window_event that accumulates every wheel unit
process_window_event_any_wheel(s, event) ==
    CASE event.kind = "KeyboardInput" ->
            update_input(s, event.input, event.state)
      [] event.kind = "CloseRequested" ->
            [s EXCEPT !.close_requested = TRUE]
      [] event.kind = "Resized" ->
            [s EXCEPT !.resize = Some(event.size)]
      [] event.kind = "CursorMoved" ->
            [s EXCEPT !.mouse_position = event.position]
      [] event.kind = "MouseWheel" ->
            [s EXCEPT !.mouse_wheel_delta =
                          <<@[1] + event.delta[1], @[2] + event.delta[2]>>]
      [] event.kind = "MouseInput" ->
            update_input(s, event.input, event.state)
      [] event.kind = "Focused" /\ ~event.focused ->
            process_lost_focus(s)
      [] OTHER -> s

\* the match over WindowEvent, identical in both variants
process_window_event(s, event) ==
    CASE event.kind = "KeyboardInput" ->
            update_input(s, event.input, event.state)
      [] event.kind = "CloseRequested" ->
            [s EXCEPT !.close_requested = TRUE]
      [] event.kind = "Resized" ->
            [s EXCEPT !.resize = Some(event.size)]
      [] event.kind = "CursorMoved" ->
            [s EXCEPT !.mouse_position = event.position]
      [] event.kind = "MouseWheel" /\ event.unit = "LineDelta" ->
            [s EXCEPT !.mouse_wheel_delta =
                          <<@[1] + event.delta[1], @[2] + event.delta[2]>>]
      [] event.kind = "MouseInput" ->
            update_input(s, event.input, event.state)
      [] event.kind = "Focused" /\ ~event.focused ->
            process_lost_focus(s)
      [] OTHER -> s

\* variant of process_device_event that overwrites mouse_motion
process_device_event_overwrites(s, event) ==
    IF event.kind = "MouseMotion"
    THEN [s EXCEPT !.mouse_motion = event.delta]
    ELSE s

\* RawInputManager::process_device_event and ApplicationHandler::device_event
process_device_event(s, event) ==
    IF event.kind = "MouseMotion"
    THEN [s EXCEPT !.mouse_motion =
                       <<@[1] + event.delta[1], @[2] + event.delta[2]>>]
    ELSE s

\* variant of preupdate that takes the distance between the two readings
preupdate_abs_delta(s, now) ==
    [s EXCEPT !.update_delta = Abs(now - s.last_update),
              !.last_update = now]

\* RawInputManagerState::preupdate and RawInputManager::process_about_to_wait
preupdate(s, now) ==
    [s EXCEPT !.update_delta = saturating_duration_since(now, s.last_update),
              !.last_update = now]

\* variant of state_clear that leaves mouse_wheel_delta alone
state_clear_keeps_wheel(s) ==
    [s EXCEPT !.keys_pressed = {},
              !.keys_released = {},
              !.mouse_motion = <<0, 0>>,
              !.resize = None,
              !.close_requested = FALSE]

\* variant of state_clear that also resets mouse_position
state_clear_resets_position(s) ==
    [s EXCEPT !.keys_pressed = {},
              !.keys_released = {},
              !.mouse_motion = <<0, 0>>,
              !.mouse_position = <<0, 0>>,
              !.mouse_wheel_delta = <<0, 0>>,
              !.resize = None,
              !.close_requested = FALSE]

\* variant of state_clear that also empties keys_held
state_clear_drops_held(s) ==
    [s EXCEPT !.keys_held = {},
              !.keys_pressed = {},
              !.keys_released = {},
              !.mouse_motion = <<0, 0>>,
              !.mouse_wheel_delta = <<0, 0>>,
              !.resize = None,
              !.close_requested = FALSE]

\* RawInputManagerState::clear (src/input/raw.rs): empties keys_released
state_clear(s) ==
    [s EXCEPT !.keys_pressed = {},
              !.keys_released = {},
              !.mouse_motion = <<0, 0>>,
              !.mouse_wheel_delta = <<0, 0>>,
              !.resize = None,
              !.close_requested = FALSE]

\* variant of clear that leaves keys_pressed alone
clear_keeps_pressed(s) ==
    [s EXCEPT !.mouse_motion = <<0, 0>>,
              !.mouse_wheel_delta = <<0, 0>>,
              !.resize = None,
              !.close_requested = FALSE]

\* variant of clear that empties keys_released
clear_empties_released(s) ==
    [s EXCEPT !.keys_pressed = {},
              !.keys_released = {},
              !.mouse_motion = <<0, 0>>,
              !.mouse_wheel_delta = <<0, 0>>,
              !.resize = None,
              !.close_requested = FALSE]

\* variant of clear that also resets loop_exiting
clear_resets_exiting(s) ==
    [s EXCEPT !.keys_pressed = {},
              !.mouse_motion = <<0, 0>>,
              !.mouse_wheel_delta = <<0, 0>>,
              !.resize = None,
              !.close_requested = FALSE,
              !.loop_exiting = FALSE]

\* variant of clear that leaves a pending resize alone
clear_keeps_resize(s) ==
    [s EXCEPT !.keys_pressed = {},
              !.mouse_motion = <<0, 0>>,
              !.mouse_wheel_delta = <<0, 0>>,
              !.close_requested = FALSE]

\* variant of clear that leaves close_requested alone
clear_keeps_close(s) ==
    [s EXCEPT !.keys_pressed = {},
              !.mouse_motion = <<0, 0>>,
              !.mouse_wheel_delta = <<0, 0>>,
              !.resize = None]

\* RawInputManager::clear (src/raw.rs): keys_released.clear() is commented out
clear(s) ==
    [s EXCEPT !.keys_pressed = {},
              !.mouse_motion = <<0, 0>>,
              !.mouse_wheel_delta = <<0, 0>>,
              !.resize = None,
              !.close_requested = FALSE]

----------------------------------------------------------------------------
(* Queries: pure reads *)

pressed(s, input) == input \in s.keys_pressed
held(s, input) == input \in s.keys_held
released(s, input) == input \in s.keys_released
mouse_motion(s) == s.mouse_motion
mouse_position(s) == s.mouse_position
delta_time(s) == s.update_delta
resized(s) == s.resize
close_requested(s) == s.close_requested
loop_exiting(s) == s.loop_exiting
game_time(s) == saturating_duration_since(s.last_update, s.start)

----------------------------------------------------------------------------
(* f32 values of the Input Manager: non-negative rationals in lowest terms *)
(* plus the IEEE specials the frame rate can take.  The conversion of a    *)
(* Duration to f32 rounds to 24 significant bits; the arithmetic on the    *)
(* converted values is exact.                                              *)

RECURSIVE GCD(_, _)
GCD(a, b) == IF b = 0 THEN a ELSE GCD(b, a % b)

Fin(n, dn) ==
    IF n = 0 THEN <<"fin", 0, 1>>
    ELSE <<"fin", n \div GCD(n, dn), dn \div GCD(n, dn)>>
Inf == <<"inf">>
NaN == <<"nan">>

IsFin(x) == x[1] = "fin"
IsZero(x) == IsFin(x) /\ x[2] = 0

\* IEEE multiplication of non-negative values: 0 * inf is NaN
FMul(x, y) ==
    CASE x = NaN \/ y = NaN -> NaN
      [] x = Inf -> IF IsZero(y) THEN NaN ELSE Inf
      [] y = Inf -> IF IsZero(x) THEN NaN ELSE Inf
      [] OTHER -> Fin(x[2] * y[2], x[3] * y[3])

\* IEEE addition of non-negative values
FAdd(x, y) ==
    CASE x = NaN \/ y = NaN -> NaN
      [] x = Inf \/ y = Inf -> Inf
      [] OTHER -> Fin(x[2] * y[3] + y[2] * x[3], x[3] * y[3])

\* 1.0 - a for a finite a in [0, 1]
OneMinus(a) == Fin(a[3] - a[2], a[3])

\* 1.0 / x for a non-negative x
FRecip(x) ==
    CASE x = NaN -> NaN
      [] x = Inf -> Fin(0, 1)
      [] IsZero(x) -> Inf
      [] OTHER -> Fin(x[3], x[2])

\* significant bits of an f32
F32Mantissa == 24

RECURSIVE Pow2(_)
Pow2(k) == IF k = 0 THEN 1 ELSE 2 * Pow2(k - 1)

\* the least s with n / 2^s < 2^F32Mantissa
RECURSIVE ExcessBits(_)
ExcessBits(n) == IF n < Pow2(F32Mantissa) THEN 0 ELSE 1 + ExcessBits(n \div 2)

\* u64 as f32: round to nearest, ties to even
RoundF32(n) ==
    LET sh == ExcessBits(n)
        q == n \div Pow2(sh)
        r == n % Pow2(sh)
    IN  IF sh = 0 THEN n
        ELSE IF 2 * r > Pow2(sh) \/ (2 * r = Pow2(sh) /\ q % 2 = 1)
             THEN (q + 1) * Pow2(sh)
             ELSE q * Pow2(sh)

\* Duration::as_secs_f32, one Duration unit of the model being one second
as_secs_f32(dur) == Fin(RoundF32(dur), 1)

\* f32 % f32 (exact) for finite x and finite y > 0
FRem(x, y) ==
    LET k == (x[2] * y[3]) \div (x[3] * y[2])
    IN  Fin(x[2] * y[3] - k * y[2] * x[3], x[3] * y[3])

\* f32 < f32 for finite values
FLess(x, y) == x[2] * y[3] < y[2] * x[3]

\* Duration::mul_f32 for a finite non-negative factor:
\* Duration::from_secs_f32(rhs * self.as_secs_f32()), which rounds to the
\* nearest unit, ties to even
mul_f32(dur, rhs) ==
    LET p == as_secs_f32(dur)[2] * rhs[2]
        q == p \div rhs[3]
        r == p % rhs[3]
    IN  CASE 2 * r < rhs[3] -> q
          [] 2 * r > rhs[3] -> q + 1
          [] OTHER -> IF q % 2 = 0 THEN q ELSE q + 1

\* variant of frame_rate that reports zero for a frame of length zero
frame_rate_zero_when_still(s) ==
    IF s.update_delta = 0 THEN Fin(0, 1) ELSE FRecip(as_secs_f32(s.update_delta))

\* RawInputManager::frame_rate
frame_rate(s) == FRecip(as_secs_f32(s.update_delta))

----------------------------------------------------------------------------
(* Input Manager: src/input_manager.rs, src/input/input_manager.rs         *)

\* Default for InputManager
InputManagerDefault ==
    [ mouse_sensitivity |-> <<1, 1>>,
      time |-> 0,
      time_scale |-> Fin(1, 1),
      smooth_frame_rate_alpha |-> Fin(1, 20),
      smooth_frame_rate |-> Fin(0, 1) ]

\* Default for Bindings: an empty key_map
BindingsDefault == [b \in {} |-> <<>>]

\* variant of im_delta_time that ignores time_scale
im_delta_time_unscaled(m, s) == delta_time(s)

\* InputManager::delta_time
im_delta_time(m, s) == mul_f32(delta_time(s), m.time_scale)

\* variant of im_after_pass_event that updates on every event
im_after_pass_event_always(m, s, is_upd) ==
    [m EXCEPT !.time = @ + im_delta_time(m, s),
              !.smooth_frame_rate =
                  FAdd(FMul(m.smooth_frame_rate_alpha, frame_rate(s)),
                       FMul(OneMinus(m.smooth_frame_rate_alpha), @))]

\* variant of im_after_pass_event that adds the raw delta to time
im_after_pass_event_unscaled(m, s, is_upd) ==
    IF is_upd
    THEN [m EXCEPT !.time = @ + delta_time(s),
                   !.smooth_frame_rate =
                       FAdd(FMul(m.smooth_frame_rate_alpha, frame_rate(s)),
                            FMul(OneMinus(m.smooth_frame_rate_alpha), @))]
    ELSE m

\* variant of im_after_pass_event whose average does not decay the old value
im_after_pass_event_no_decay(m, s, is_upd) ==
    IF is_upd
    THEN [m EXCEPT !.time = @ + im_delta_time(m, s),
                   !.smooth_frame_rate =
                       FAdd(FMul(m.smooth_frame_rate_alpha, frame_rate(s)), @)]
    ELSE m

\* InputManager::pass_event after raw.pass_event has returned is_upd and
\* left the raw state s
im_after_pass_event(m, s, is_upd) ==
    IF is_upd
    THEN [m EXCEPT !.time = @ + im_delta_time(m, s),
                   !.smooth_frame_rate =
                       FAdd(FMul(m.smooth_frame_rate_alpha, frame_rate(s)),
                            FMul(OneMinus(m.smooth_frame_rate_alpha), @))]
    ELSE m

\* InputManager::every / InputManagerState::every (feature "unstable"), for
\* a finite interval time > 0
every(m, s, time) ==
    FLess(FRem(as_secs_f32(m.time), time), as_secs_f32(im_delta_time(m, s)))

----------------------------------------------------------------------------
(* Bindings: src/bindings.rs, src/input/bindings.rs.  key_map is a function *)
(* from the bound actions to their lists of Input Identities.              *)

\* the application's actions (enum Binds of the examples)
Binds == {"Up", "Down"}

\* the identities an application binds: those of the events, and one more
BoundInputs == Inputs \cup {Key("KeyW")}

\* Vec::contains
Contains(list, key) == \E i \in DOMAIN list : list[i] = key

\* Vec::retain(|k| k != key)
Retain(list, key) == SelectSeq(list, LAMBDA k : k # key)

\* HashMap::entry(input).or_default(): the map with an entry for input
or_default(m, input) ==
    IF input \in DOMAIN m
    THEN m
    ELSE [b \in DOMAIN m \cup {input} |-> IF b = input THEN <<>> ELSE m[b]]

\* variant of bind that takes the key away from every other binding
bind_exclusive(m, key, input) ==
    LET e == or_default(m, input)
        pushed == IF Contains(e[input], key)
                  THEN e
                  ELSE [e EXCEPT ![input] = Append(@, key)]
    IN  [b \in DOMAIN pushed |->
            IF b = input THEN pushed[b] ELSE Retain(pushed[b], key)]

\* variant of bind without the contains check
bind_always_pushes(m, key, input) ==
    [or_default(m, input) EXCEPT ![input] = Append(@, key)]

\* Bindings::bind
bind(m, key, input) ==
    LET e == or_default(m, input)
    IN  IF Contains(e[input], key)
        THEN e
        ELSE [e EXCEPT ![input] = Append(@, key)]

\* variant of unbind that removes with Vec::swap_remove
unbind_swap_remove(m, key, input) ==
    LET e == or_default(m, input)
        list == e[input]
        n == Len(list)
    IN  IF Contains(list, key)
        THEN LET i == CHOOSE i \in DOMAIN list : list[i] = key
             IN  [e EXCEPT ![input] =
                     [j \in 1..(n - 1) |-> IF j = i THEN list[n] ELSE list[j]]]
        ELSE e

\* Bindings::unbind
unbind(m, key, input) ==
    [or_default(m, input) EXCEPT ![input] = Retain(@, key)]

\* Bindings::transform
transform(m, input) == IF input \in DOMAIN m THEN m[input] ELSE <<>>

\* variant of im_pressed that asks the first bound identity only
im_pressed_first_only(m, s, input) ==
    /\ transform(m, input) # <<>>
    /\ pressed(s, transform(m, input)[1])

\* InputManager::pressed
im_pressed(m, s, input) ==
    \E i \in DOMAIN transform(m, input) : pressed(s, transform(m, input)[i])

\* variant of im_held that asks for all of the bound identities
im_held_all(m, s, input) ==
    \A i \in DOMAIN transform(m, input) : held(s, transform(m, input)[i])

\* InputManager::held
im_held(m, s, input) ==
    \E i \in DOMAIN transform(m, input) : held(s, transform(m, input)[i])

\* InputManager::released
im_released(m, s, input) ==
    \E i \in DOMAIN transform(m, input) : released(s, transform(m, input)[i])

----------------------------------------------------------------------------
(* Axes: InputManagerState::axis / axis_n / axis_n_norm (handler variant)  *)
(* and InputManager::axis / axis2 / axis3 / axis2_norm / axis3_norm (event *)
(* variant).  The axis values are small integers, exact in f32.            *)

\* the actions of an application with two movement axes
AxisActions == {"Up", "Down", "Left", "Right"}

\* struct AxisBind
AxisBind(pos, neg) == [pos |-> pos, neg |-> neg]

\* if b { 1.0 } else { 0.0 }
One(b) == IF b THEN 1 ELSE 0

\* variant of axis that subtracts in both generations
axis_subtracts(v, m, s, axis_bind) ==
    One(im_held(m, s, axis_bind.pos)) - One(im_held(m, s, axis_bind.neg))

\* axis: the handler variant subtracts, the event variant adds
axis(v, m, s, axis_bind) ==
    IF v = "handler"
    THEN One(im_held(m, s, axis_bind.pos)) - One(im_held(m, s, axis_bind.neg))
    ELSE One(im_held(m, s, axis_bind.pos)) + One(im_held(m, s, axis_bind.neg))

\* axis_n, axis2, axis3
axis_n(v, m, s, binds) == [i \in DOMAIN binds |-> axis(v, m, s, binds[i])]

\* axes.iter().map(|x| x * x).sum()
RECURSIVE sqr_mag(_)
sqr_mag(axes) ==
    IF axes = <<>> THEN 0 ELSE Head(axes) * Head(axes) + sqr_mag(Tail(axes))

\* the real number x / sqrt(q), for q > 0
OverSqrt(x, q) == IF x = 0 THEN [num |-> 0, sq |-> 1] ELSE [num |-> x, sq |-> q]

\* variant of axis_n_norm that divides by the squared magnitude
axis_n_norm_by_sqr_mag(v, m, s, binds) ==
    LET axes == axis_n(v, m, s, binds)
        q == sqr_mag(axes)
    IN  IF q = 0
        THEN [i \in DOMAIN binds |-> OverSqrt(0, 1)]
        ELSE [i \in DOMAIN binds |-> OverSqrt(axes[i], q * q)]

\* axis_n_norm, axis2_norm, axis3_norm
axis_n_norm(v, m, s, binds) ==
    LET axes == axis_n(v, m, s, binds)
        q == sqr_mag(axes)
    IN  IF q = 0
        THEN [i \in DOMAIN binds |-> OverSqrt(0, 1)]
        ELSE [i \in DOMAIN binds |-> OverSqrt(axes[i], q)]

\* macro dry_binds!: Bindings::default() and one bind call per pair, in order
RECURSIVE dry_binds(_)
dry_binds(pairs) ==
    IF pairs = <<>>
    THEN BindingsDefault
    ELSE LET n == Len(pairs)
         IN  bind(dry_binds(SubSeq(pairs, 1, n - 1)), pairs[n][1], pairs[n][2])

----------------------------------------------------------------------------
(* What an application reads from a raw input manager, in either variant   *)

\* the queries held, pressed, released, mouse_motion, mouse_position,
\* mouse_wheel_delta, resized, close_requested and loop_exiting
Observe(s) ==
    [ keys_held |-> s.keys_held,
      keys_pressed |-> s.keys_pressed,
      keys_released |-> s.keys_released,
      mouse_motion |-> s.mouse_motion,
      mouse_position |-> s.mouse_position,
      mouse_wheel_delta |-> s.mouse_wheel_delta,
      resize |-> s.resize,
      close_requested |-> s.close_requested,
      loop_exiting |-> s.loop_exiting ]

\* RawInputManager::default() of src/raw.rs, before any event
TwinDefault(t0, t1) ==
    [ state |-> RawDefault(t0, t1),
      ever_released |-> {} ]

----------------------------------------------------------------------------
(* Ticker: src/input/ticker.rs.  Durations and instants are whole units    *)
(* of the ticker's clock.                                                  *)

\* Ticker::new(interval), built at the clock reading now
Ticker_new(interval, now) ==
    [ interval |-> interval,
      count |-> 0,
      last |-> now,
      is_tick |-> FALSE,
      paused |-> FALSE ]

\* variant of Ticker_update that ticks once the interval is reached
Ticker_update_at_interval(t, now) ==
    LET tick == ~t.paused /\ saturating_duration_since(now, t.last) >= t.interval
    IN  IF tick
        THEN [t EXCEPT !.is_tick = TRUE, !.last = now, !.count = @ + 1]
        ELSE [t EXCEPT !.is_tick = FALSE]

\* Ticker::update, with now the value Instant::now() returns
Ticker_update(t, now) ==
    LET tick == ~t.paused /\ saturating_duration_since(now, t.last) > t.interval
    IN  IF tick
        THEN [t EXCEPT !.is_tick = TRUE, !.last = now, !.count = @ + 1]
        ELSE [t EXCEPT !.is_tick = FALSE]

\* Ticker::is_tick
is_tick(t) == t.is_tick

\* the clock at the reading now, before any update call
TickLogAt(now) == [now |-> now, ticks |-> 0]

----------------------------------------------------------------------------
(* Initial state: RawInputManager::new / Default, before the host loop     *)
(* has delivered anything.                                                 *)

NoEvent == [kind |-> "none"]

\* App::default() of examples/simple_raw.rs: no window yet
AppDefault == [window |-> None]

Init ==
    /\ variant \in {"handler", "event"}
    /\ \E t1 \in 0..MaxNow : raw = RawDefault(0, t1)
    /\ pc = "start"
    /\ last_event = NoEvent
    /\ is_update = FALSE
    /\ press_delivered = {}
    /\ handler = AppDefault
    /\ ticker = Ticker_new(1, 0)
    /\ tick_log = TickLogAt(0)
    /\ twin = TwinDefault(0, 0)
    /\ im = InputManagerDefault
    /\ bindings = BindingsDefault

\* the press events handed to the manager since the last application update
Delivered(since, event) ==
    IF event.kind \in {"KeyboardInput", "MouseInput"} /\ event.state = "Pressed"
    THEN since \cup {event.input}
    ELSE since

\* the accumulators stay inside the modelled range
WithinBounds(s) ==
    /\ Abs(s.mouse_motion[1]) <= MaxMotion
    /\ Abs(s.mouse_wheel_delta[1]) <= MaxWheel
    /\ Abs(s.mouse_wheel_delta[2]) <= MaxWheel

\* clock readings are monotonic
Clock(s) == s.last_update..MaxNow

----------------------------------------------------------------------------
(* Handler-based variant: impl ApplicationHandler for RawInputManager<H>   *)

\* ApplicationHandler::window_event
window_event(event) ==
    /\ variant = "handler"
    /\ pc = "events"
    /\ WithinBounds(process_window_event(raw, event))
    /\ raw' = process_window_event(raw, event)
    /\ last_event' = event
    /\ press_delivered' = Delivered(press_delivered, event)
    /\ UNCHANGED <<twin, ticker, tick_log, handler, im, bindings, variant, pc, is_update>>

\* ApplicationHandler::device_event
device_event(event) ==
    /\ variant = "handler"
    /\ pc = "events"
    /\ WithinBounds(process_device_event(raw, event))
    /\ raw' = process_device_event(raw, event)
    /\ last_event' = event
    /\ UNCHANGED <<twin, ticker, tick_log, handler, im, bindings, variant, pc, is_update, press_delivered>>

\* the cause the host gives new_events: Init for the first one of a run
StartCause(at) == IF at = "start" THEN "Init" ELSE "Poll"

\* variant of handler_calls that draws whatever the cause is
handler_calls_always_draws(cause) == <<"update", "draw">>

\* the handler methods new_events calls between preupdate and clear
handler_calls(cause) ==
    IF cause # "Init" THEN <<"update", "draw">> ELSE <<"update">>

\* ApplicationHandler::new_events up to the calls of handler.update and
\* handler.draw: preupdate has run and the handler reads the state.  The
\* first new_events of a run has cause Init, for which draw is skipped.
new_events(now) ==
    /\ variant = "handler"
    /\ pc \in {"start", "events"}
    /\ raw' = preupdate(raw, now)
    /\ pc' = IF pc = "start" THEN "init_update" ELSE "update"
    /\ last_event' = [kind |-> "new_events",
                      cause |-> StartCause(pc),
                      now |-> now,
                      calls |-> handler_calls(StartCause(pc))]
    /\ UNCHANGED <<twin, ticker, tick_log, handler, im, bindings, variant, is_update, press_delivered>>

\* ApplicationHandler::new_events from the return of the handler calls: the
\* closing self.state.clear().  Nothing else can run between the two halves:
\* the callback holds &mut self on the single event-loop thread.
new_events_clear ==
    /\ variant = "handler"
    /\ pc \in {"init_update", "update"}
    /\ raw' = state_clear(raw)
    /\ pc' = IF pc = "init_update" THEN "resume" ELSE "events"
    /\ last_event' = [kind |-> "clear"]
    /\ press_delivered' = {}
    /\ UNCHANGED <<twin, ticker, tick_log, handler, im, bindings, variant, is_update>>

\* ApplicationHandler::resumed: the host emits Resumed right after the
\* first new_events; the call goes to handler.resumed, which creates the
\* window
resumed ==
    /\ variant = "handler"
    /\ pc = "resume"
    /\ handler' = [handler EXCEPT !.window = Some("window")]
    /\ pc' = "events"
    /\ last_event' = [kind |-> "resumed"]
    /\ UNCHANGED <<twin, ticker, tick_log, raw, im, bindings, variant, is_update, press_delivered>>

\* ApplicationHandler::exiting
exiting ==
    /\ variant = "handler"
    /\ pc \in {"start", "resume", "events"}
    /\ raw' = process_loop_exiting(raw)
    /\ last_event' = [kind |-> "exiting"]
    /\ UNCHANGED <<twin, ticker, tick_log, handler, im, bindings, variant, pc, is_update, press_delivered>>

----------------------------------------------------------------------------
(* Event-passing variant: RawInputManager::pass_event                      *)

NewEvents == [kind |-> "NewEvents"]
AboutToWait == [kind |-> "AboutToWait"]
LoopExiting == [kind |-> "LoopExiting"]
\* any other winit Event (Resumed, Suspended, UserEvent, ...)
OtherEvent == [kind |-> "Other"]

\* variant of pass_event_match that also reports an update on NewEvents
pass_event_match_update_on_new_events(s, event, now) ==
    CASE event.kind = "NewEvents" ->
            [state |-> clear(s), ret |-> TRUE]
      [] event \in WindowEvents ->
            [state |-> process_window_event(s, event), ret |-> FALSE]
      [] event \in DeviceEvents ->
            [state |-> process_device_event(s, event), ret |-> FALSE]
      [] event.kind = "AboutToWait" ->
            [state |-> preupdate(s, now), ret |-> TRUE]
      [] event.kind = "LoopExiting" ->
            [state |-> process_loop_exiting(s), ret |-> FALSE]
      [] OTHER -> [state |-> s, ret |-> FALSE]

\* the match of pass_event: new state and returned flag
pass_event_match(s, event, now) ==
    CASE event.kind = "NewEvents" ->
            [state |-> clear(s), ret |-> FALSE]
      [] event \in WindowEvents ->
            [state |-> process_window_event(s, event), ret |-> FALSE]
      [] event \in DeviceEvents ->
            [state |-> process_device_event(s, event), ret |-> FALSE]
      [] event.kind = "AboutToWait" ->
            [state |-> preupdate(s, now), ret |-> TRUE]
      [] event.kind = "LoopExiting" ->
            [state |-> process_loop_exiting(s), ret |-> FALSE]
      [] OTHER -> [state |-> s, ret |-> FALSE]

\* the order in which the winit event loop emits events:
\* NewEvents, window and device events, AboutToWait, and again
HostEmits(event) ==
    CASE event.kind = "NewEvents" -> pc \in {"start", "waiting"}
      [] event.kind = "LoopExiting" -> TRUE
      [] OTHER -> pc = "events"

\* the event as dispatched, with the clock reading taken while handling it
Stamped(event, now) ==
    IF event.kind = "AboutToWait"
    THEN [kind |-> "AboutToWait", now |-> now]
    ELSE event

\* the call raw.pass_event(event) and the position of the host loop after it
host_passes(event, now) ==
    /\ variant = "event"
    /\ HostEmits(event)
    /\ WithinBounds(pass_event_match(raw, event, now).state)
    /\ raw' = pass_event_match(raw, event, now).state
    /\ is_update' = pass_event_match(raw, event, now).ret
    /\ pc' = CASE event.kind = "NewEvents" -> "events"
               [] event.kind = "AboutToWait" -> "waiting"
               [] OTHER -> pc
    /\ last_event' = Stamped(event, now)
    /\ press_delivered' = Delivered(IF is_update THEN {} ELSE press_delivered,
                                    event)
    /\ UNCHANGED <<twin, ticker, tick_log, handler, bindings, variant>>

\* RawInputManager::pass_event called directly by the application
pass_event(event, now) ==
    /\ host_passes(event, now)
    /\ UNCHANGED im

\* InputManager::pass_event
im_pass_event(event, now) ==
    /\ host_passes(event, now)
    /\ im' = im_after_pass_event(im, pass_event_match(raw, event, now).state,
                                 pass_event_match(raw, event, now).ret)

\* InputManagerState::preupdate (handler variant): self.raw.preupdate(),
\* then the same update of time and smooth_frame_rate as pass_event makes
im_preupdate(now) ==
    /\ variant = "handler"
    /\ pc \in {"start", "events"}
    /\ raw' = preupdate(raw, now)
    /\ im' = im_after_pass_event(im, preupdate(raw, now), TRUE)
    /\ pc' = "update"
    /\ last_event' = [kind |-> "preupdate", now |-> now]
    /\ UNCHANGED <<twin, ticker, tick_log, handler, bindings, variant, is_update, press_delivered>>

\* the application assigns the public field time_scale
set_time_scale(ts) ==
    /\ im' = [im EXCEPT !.time_scale = ts]
    /\ last_event' = [kind |-> "set_time_scale", time_scale |-> ts]
    /\ UNCHANGED <<twin, ticker, tick_log, handler, variant, raw, pc, is_update, press_delivered, bindings>>

----------------------------------------------------------------------------
(* The application edits its bindings between two events                   *)

\* the call bindings.bind(key, input); before is the list it found
call_bind(key, input) ==
    /\ Len(bind(bindings, key, input)[input]) <= MaxBindings
    /\ bindings' = bind(bindings, key, input)
    /\ last_event' = [kind |-> "bind", key |-> key, input |-> input,
                      before |-> transform(bindings, input)]
    /\ UNCHANGED <<twin, ticker, tick_log, handler, variant, raw, pc, is_update, press_delivered, im>>

\* the call bindings.unbind(&key, input)
call_unbind(key, input) ==
    /\ bindings' = unbind(bindings, key, input)
    /\ last_event' = [kind |-> "unbind", key |-> key, input |-> input,
                      before |-> transform(bindings, input)]
    /\ UNCHANGED <<twin, ticker, tick_log, handler, variant, raw, pc, is_update, press_delivered, im>>

----------------------------------------------------------------------------
(* One host event sequence fed to both variants: every event goes to the  *)
(* ApplicationHandler callbacks of src/input/raw.rs (state raw) and to    *)
(* pass_event of src/raw.rs (state twin.state).  The host emits           *)
(* NewEvents, [Resumed,] window and device events, AboutToWait, and       *)
(* again; LoopExiting is the last event of a run.  The two managers are   *)
(* separate programs: NewEvents reaches the event-passing one while the   *)
(* handler-based one is finishing its new_events callback, so that the    *)
(* application of each is looking at its state at the same step.          *)

\* the identities the host has sent a release event for
EverReleased(ever, event) ==
    IF event.kind \in {"KeyboardInput", "MouseInput"} /\ event.state = "Released"
    THEN ever \cup {event.input}
    ELSE ever

\* the twin after raw.pass_event(event)
twin_pass_event(t, event, now) ==
    [ state |-> pass_event_match(t.state, event, now).state,
      ever_released |-> EverReleased(t.ever_released, event) ]

\* Event::NewEvents: ApplicationHandler::new_events up to the handler
\* calls; the application of the event-passing variant is still where
\* the last pass_event left it
both_new_events(now) ==
    /\ variant = "both"
    /\ pc \in {"start", "waiting"}
    /\ raw' = preupdate(raw, now)
    /\ UNCHANGED <<twin, is_update>>
    /\ pc' = IF pc = "start" THEN "init_update" ELSE "update"
    /\ last_event' = [kind |-> "new_events",
                      cause |-> StartCause(pc),
                      now |-> now,
                      calls |-> handler_calls(StartCause(pc))]
    /\ UNCHANGED <<variant, press_delivered, im, bindings, handler, ticker,
                   tick_log>>

\* the closing self.state.clear() of ApplicationHandler::new_events, and
\* pass_event(NewEvents)
both_new_events_clear ==
    /\ variant = "both"
    /\ pc \in {"init_update", "update"}
    /\ raw' = state_clear(raw)
    /\ twin' = twin_pass_event(twin, NewEvents, twin.state.last_update)
    /\ is_update' = pass_event_match(twin.state, NewEvents,
                                     twin.state.last_update).ret
    /\ pc' = IF pc = "init_update" THEN "resume" ELSE "events"
    /\ last_event' = [kind |-> "clear"]
    /\ UNCHANGED <<variant, press_delivered, im, bindings, handler,
                   ticker, tick_log>>

\* Event::Resumed: ApplicationHandler::resumed, and pass_event's `_` arm
both_resumed ==
    /\ variant = "both"
    /\ pc = "resume"
    /\ handler' = [handler EXCEPT !.window = Some("window")]
    /\ twin' = twin_pass_event(twin, OtherEvent, twin.state.last_update)
    /\ is_update' = pass_event_match(twin.state, OtherEvent,
                                     twin.state.last_update).ret
    /\ pc' = "events"
    /\ last_event' = [kind |-> "resumed"]
    /\ UNCHANGED <<variant, raw, press_delivered, im, bindings, ticker,
                   tick_log>>

\* Event::WindowEvent: ApplicationHandler::window_event, and pass_event
both_window_event(event) ==
    /\ variant = "both"
    /\ pc = "events"
    /\ WithinBounds(process_window_event(raw, event))
    /\ raw' = process_window_event(raw, event)
    /\ twin' = twin_pass_event(twin, event, twin.state.last_update)
    /\ is_update' = pass_event_match(twin.state, event,
                                     twin.state.last_update).ret
    /\ last_event' = event
    /\ UNCHANGED <<variant, pc, press_delivered, im, bindings, handler, ticker,
                   tick_log>>

\* Event::DeviceEvent: ApplicationHandler::device_event, and pass_event
both_device_event(event) ==
    /\ variant = "both"
    /\ pc = "events"
    /\ WithinBounds(process_device_event(raw, event))
    /\ raw' = process_device_event(raw, event)
    /\ twin' = twin_pass_event(twin, event, twin.state.last_update)
    /\ is_update' = pass_event_match(twin.state, event,
                                     twin.state.last_update).ret
    /\ last_event' = event
    /\ UNCHANGED <<variant, pc, press_delivered, im, bindings, handler, ticker,
                   tick_log>>

\* Event::AboutToWait: ApplicationHandler::about_to_wait is not overridden
\* (the default does nothing); pass_event returns true
both_about_to_wait(now) ==
    /\ variant = "both"
    /\ pc = "events"
    /\ twin' = twin_pass_event(twin, AboutToWait, now)
    /\ is_update' = pass_event_match(twin.state, AboutToWait, now).ret
    /\ pc' = "waiting"
    /\ last_event' = Stamped(AboutToWait, now)
    /\ UNCHANGED <<variant, raw, press_delivered, im, bindings, handler,
                   ticker, tick_log>>

\* Event::LoopExiting: ApplicationHandler::exiting, and pass_event; the
\* host emits nothing after it
both_exiting ==
    /\ variant = "both"
    /\ pc \in {"resume", "events", "waiting"}
    /\ raw' = process_loop_exiting(raw)
    /\ twin' = twin_pass_event(twin, LoopExiting, twin.state.last_update)
    /\ is_update' = pass_event_match(twin.state, LoopExiting,
                                     twin.state.last_update).ret
    /\ pc' = "exited"
    /\ last_event' = [kind |-> "exiting"]
    /\ UNCHANGED <<variant, press_delivered, im, bindings, handler, ticker,
                   tick_log>>

----------------------------------------------------------------------------
(* The application drives a Ticker                                         *)

\* the call ticker.update(); Instant::now() is monotonic
ticker_update(now) ==
    /\ now >= tick_log.now
    /\ ticker' = Ticker_update(ticker, now)
    /\ tick_log' = [now |-> now,
                    ticks |-> tick_log.ticks
                                + One(is_tick(Ticker_update(ticker, now)))]
    /\ last_event' = [kind |-> "ticker_update", now |-> now]
    /\ UNCHANGED <<twin, variant, raw, pc, is_update, press_delivered, im,
                   bindings, handler>>

\* the application assigns the public field paused
set_paused(paused) ==
    /\ ticker' = [ticker EXCEPT !.paused = paused]
    /\ last_event' = [kind |-> "set_paused", paused |-> paused]
    /\ UNCHANGED <<twin, variant, raw, pc, is_update, press_delivered, im,
                   bindings, handler, tick_log>>

\* the application assigns the public field interval
set_interval(interval) ==
    /\ ticker' = [ticker EXCEPT !.interval = interval]
    /\ last_event' = [kind |-> "set_interval", interval |-> interval]
    /\ UNCHANGED <<twin, variant, raw, pc, is_update, press_delivered, im,
                   bindings, handler, tick_log>>

----------------------------------------------------------------------------

\* one step of the host event loop over the window events WE and the
\* device events DE
NextOver(WE, DE) ==
    \/ \E event \in WE : window_event(event)
    \/ \E event \in DE : device_event(event)
    \/ \E now \in Clock(raw) : new_events(now)
    \/ new_events_clear
    \/ resumed
    \/ exiting
    \/ \E event \in WE \cup DE \cup {NewEvents, LoopExiting, OtherEvent} :
           pass_event(event, raw.last_update)
    \/ \E now \in Clock(raw) : pass_event(AboutToWait, now)

\* keyboard, mouse button, focus and close events over all identities
KeyWindowEvents ==
    InputEvents \cup {CloseRequested} \cup {Focused(f) : f \in BOOLEAN}

\* every kind of window event, over one key and one value of each payload
FrameWindowEvents ==
    {KeyboardInput("KeyA", st) : st \in ElementState}
    \cup {CloseRequested, Resized(<<800, 600>>), CursorMoved(<<5, 7>>),
          MouseWheelLine(<<0, 1>>), MouseWheelPixel(<<0, 1>>)}
    \cup {Focused(f) : f \in BOOLEAN}

FrameDeviceEvents == {MouseMotion(<<1, 2>>), OtherDeviceEvent}

\* the pointer, wheel and resize events, over every payload
PointerWindowEvents ==
    {e \in WindowEvents : e.kind \in {"Resized", "CursorMoved", "MouseWheel"}}

Next == NextOver(KeyWindowEvents, {OtherDeviceEvent})

Spec == Init /\ [][Next]_vars

NextFrame == NextOver(FrameWindowEvents, FrameDeviceEvents)

SpecFrame == Init /\ [][NextFrame]_vars

NextPointer == NextOver(PointerWindowEvents, DeviceEvents)

SpecPointer == Init /\ [][NextPointer]_vars

\* a few events, and clock readings in any order: the code does not rely on
\* Instant being monotonic (saturating_duration_since)
ClockWindowEvents ==
    {KeyboardInput("KeyA", st) : st \in ElementState} \cup {CloseRequested}

InitClock ==
    /\ variant \in {"handler", "event"}
    /\ \E t0 \in 0..MaxNow : \E t1 \in t0..MaxNow : raw = RawDefault(t0, t1)
    /\ pc = "start"
    /\ last_event = NoEvent
    /\ is_update = FALSE
    /\ press_delivered = {}
    /\ handler = AppDefault
    /\ ticker = Ticker_new(1, 0)
    /\ tick_log = TickLogAt(0)
    /\ twin = TwinDefault(0, 0)
    /\ im = InputManagerDefault
    /\ bindings = BindingsDefault

NextClock ==
    \/ \E event \in ClockWindowEvents : window_event(event)
    \/ \E now \in 0..MaxNow : new_events(now)
    \/ new_events_clear
    \/ resumed
    \/ exiting
    \/ \E event \in ClockWindowEvents \cup {NewEvents, LoopExiting} :
           pass_event(event, raw.last_update)
    \/ \E now \in 0..MaxNow : pass_event(AboutToWait, now)

SpecClock == InitClock /\ [][NextClock]_vars

\* one event of every kind; the event variant runs under an InputManager
TimeWindowEvents ==
    {KeyboardInput("KeyA", "Pressed"), MouseInput("Left", "Released")}
    \cup {CloseRequested, Resized(<<800, 600>>), CursorMoved(<<5, 7>>),
          MouseWheelLine(<<0, 1>>), Focused(FALSE)}

TimeDeviceEvents == {MouseMotion(<<3, 4>>)}

NextTime ==
    \/ \E event \in TimeWindowEvents : window_event(event)
    \/ \E event \in TimeDeviceEvents : device_event(event)
    \/ \E now \in Clock(raw) : new_events(now)
    \/ new_events_clear
    \/ resumed
    \/ exiting
    \/ \E event \in TimeWindowEvents \cup TimeDeviceEvents
                       \cup {NewEvents, LoopExiting, OtherEvent} :
           im_pass_event(event, raw.last_update)
    \/ \E now \in Clock(raw) : im_pass_event(AboutToWait, now)

SpecTime == Init /\ [][NextTime]_vars

\* bind and unbind calls only, over three identities and two actions
NextBindings ==
    \/ \E key \in BoundInputs, input \in Binds : call_bind(key, input)
    \/ \E key \in BoundInputs, input \in Binds : call_unbind(key, input)

SpecBindings == Init /\ [][NextBindings]_vars

\* presses and releases of one key and focus changes, with bind and unbind
\* calls over the identities of the events; the clock stands still
QueryWindowEvents ==
    {KeyboardInput("KeyA", st) : st \in ElementState} \cup {Focused(FALSE)}

NextQuery ==
    \/ \E event \in QueryWindowEvents : window_event(event)
    \/ new_events(raw.last_update)
    \/ new_events_clear
    \/ resumed
    \/ \E event \in QueryWindowEvents \cup {NewEvents} :
           im_pass_event(event, raw.last_update)
    \/ im_pass_event(AboutToWait, raw.last_update)
    \/ \E key \in Inputs, input \in Binds : call_bind(key, input)
    \/ \E key \in Inputs, input \in Binds : call_unbind(key, input)

SpecQuery == Init /\ [][NextQuery]_vars

\* presses and releases of both identities, under a table that binds each
\* identity to one of the axis actions; the clock stands still
InitAxis ==
    /\ variant \in {"handler", "event"}
    /\ raw = RawDefault(0, 0)
    /\ pc = "start"
    /\ last_event = NoEvent
    /\ is_update = FALSE
    /\ press_delivered = {}
    /\ handler = AppDefault
    /\ ticker = Ticker_new(1, 0)
    /\ tick_log = TickLogAt(0)
    /\ twin = TwinDefault(0, 0)
    /\ im = InputManagerDefault
    /\ \E a1, a2 \in AxisActions :
           bindings = dry_binds(<< <<Key("KeyA"), a1>>, <<Mouse("Left"), a2>> >>)

NextAxis ==
    \/ \E event \in InputEvents : window_event(event)
    \/ new_events(raw.last_update)
    \/ new_events_clear
    \/ resumed
    \/ \E event \in InputEvents \cup {NewEvents} :
           im_pass_event(event, raw.last_update)
    \/ im_pass_event(AboutToWait, raw.last_update)

SpecAxis == InitAxis /\ [][NextAxis]_vars

\* pause, slow motion, normal speed and fast forward
TimeScales == {Fin(0, 1), Fin(1, 2), Fin(1, 1), Fin(2, 1)}

\* frames of any length under an Input Manager whose time_scale the
\* application changes between events
NextScale ==
    \/ \E now \in Clock(raw) : im_preupdate(now)
    \/ new_events_clear
    \/ im_pass_event(NewEvents, raw.last_update)
    \/ \E now \in Clock(raw) : im_pass_event(AboutToWait, now)
    \/ \E ts \in TimeScales : set_time_scale(ts)

SpecScale == Init /\ [][NextScale]_vars

\* seconds after which an f32 no longer holds every whole second: 2^24 - 2
LongRun == 16777214

\* length of the window of time observed
MaxEverySpan == 4

\* a manager at its start, or one that has run for LongRun seconds and has
\* just seen a frame of length zero
InitEvery ==
    /\ variant \in {"handler", "event"}
    /\ \/ /\ raw = RawDefault(0, 0)
          /\ im = InputManagerDefault
          /\ pc = "start"
          /\ last_event = NoEvent
       \/ /\ raw = RawDefault(0, LongRun)
          /\ im = [InputManagerDefault EXCEPT !.time = LongRun,
                                              !.smooth_frame_rate = Inf]
          /\ pc = "events"
          /\ last_event = IF variant = "handler" THEN [kind |-> "clear"]
                                                 ELSE NewEvents
    /\ is_update = FALSE
    /\ press_delivered = {}
    /\ handler = AppDefault
    /\ ticker = Ticker_new(1, 0)
    /\ tick_log = TickLogAt(0)
    /\ twin = TwinDefault(0, 0)
    /\ bindings = BindingsDefault

\* the clock readings of frames of zero, one and two seconds
EveryClock(s) ==
    {now \in s.last_update..(s.last_update + 2) :
         now <= (IF s.last_update >= LongRun THEN LongRun ELSE 0)
                    + MaxEverySpan}

NextEvery ==
    \/ \E now \in EveryClock(raw) : im_preupdate(now)
    \/ new_events_clear
    \/ im_pass_event(NewEvents, raw.last_update)
    \/ \E now \in EveryClock(raw) : im_pass_event(AboutToWait, now)

SpecEvery == InitEvery /\ [][NextEvery]_vars

\* presses and releases of every identity among one event of each other
\* kind; the clock stands still
EffectWindowEvents ==
    InputEvents
    \cup {CloseRequested, Resized(<<800, 600>>), CursorMoved(<<5, 7>>),
          MouseWheelLine(<<0, 1>>)}

EffectDeviceEvents == {MouseMotion(<<3, 4>>)}

NextEffect ==
    \/ \E event \in EffectWindowEvents : window_event(event)
    \/ \E event \in EffectDeviceEvents : device_event(event)
    \/ new_events(raw.last_update)
    \/ new_events_clear
    \/ resumed
    \/ exiting
    \/ \E event \in EffectWindowEvents \cup EffectDeviceEvents
                       \cup {NewEvents, AboutToWait, LoopExiting} :
           pass_event(event, raw.last_update)

SpecEffect == Init /\ [][NextEffect]_vars

\* both variants under one host loop, over one key and one event of each
\* other kind; the clock stands still
TwinWindowEvents ==
    {KeyboardInput("KeyA", st) : st \in ElementState}
    \cup {MouseInput("Left", "Released"), CloseRequested,
          Resized(<<800, 600>>), CursorMoved(<<5, 7>>),
          MouseWheelLine(<<0, 1>>), Focused(FALSE)}

TwinDeviceEvents == {MouseMotion(<<3, 4>>)}

InitTwin ==
    /\ variant = "both"
    /\ raw = RawDefault(0, 0)
    /\ twin = TwinDefault(0, 0)
    /\ pc = "start"
    /\ last_event = NoEvent
    /\ is_update = FALSE
    /\ press_delivered = {}
    /\ handler = AppDefault
    /\ ticker = Ticker_new(1, 0)
    /\ tick_log = TickLogAt(0)
    /\ im = InputManagerDefault
    /\ bindings = BindingsDefault

NextTwin ==
    \/ both_new_events(raw.last_update)
    \/ both_new_events_clear
    \/ both_resumed
    \/ \E event \in TwinWindowEvents : both_window_event(event)
    \/ \E event \in TwinDeviceEvents : both_device_event(event)
    \/ both_about_to_wait(twin.state.last_update)
    \/ both_exiting

SpecTwin == InitTwin /\ [][NextTwin]_vars

\* the tick intervals the application uses
TickIntervals == {0, 1, 2}

\* a ticker built at any clock reading, with any of the intervals
InitTicker ==
    /\ variant \in {"handler", "event"}
    /\ raw = RawDefault(0, 0)
    /\ pc = "start"
    /\ last_event = NoEvent
    /\ is_update = FALSE
    /\ press_delivered = {}
    /\ handler = AppDefault
    /\ im = InputManagerDefault
    /\ bindings = BindingsDefault
    /\ \E interval \in TickIntervals, now \in 0..1 :
           /\ ticker = Ticker_new(interval, now)
           /\ tick_log = TickLogAt(now)
    /\ twin = TwinDefault(0, 0)

NextTicker ==
    \/ \E now \in 0..MaxTickNow : ticker_update(now)
    \/ \E paused \in BOOLEAN : set_paused(paused)
    \/ \E interval \in TickIntervals : set_interval(interval)

SpecTicker == InitTicker /\ [][NextTicker]_vars

TypeOK ==
    /\ variant \in {"handler", "event", "both"}
    /\ raw.keys_held \subseteq Inputs
    /\ raw.keys_pressed \subseteq Inputs
    /\ raw.keys_released \subseteq Inputs
    /\ pc \in {"start", "init_update", "update", "resume", "events", "waiting",
              "exited"}
    /\ is_update \in BOOLEAN
    /\ press_delivered \subseteq Inputs
    /\ handler.window \in {None, Some("window")}

----------------------------------------------------------------------------
(* Vocabulary of the properties *)

IsPress(event, k) ==
    /\ event.kind \in {"KeyboardInput", "MouseInput"}
    /\ event.input = k
    /\ event.state = "Pressed"

IsRelease(event, k) ==
    /\ event.kind \in {"KeyboardInput", "MouseInput"}
    /\ event.input = k
    /\ event.state = "Released"

IsFocusLost(event) == event.kind = "Focused" /\ ~event.focused

\* the step that ran clear(): the second half of new_events (handler
\* variant) or pass_event(NewEvents) (event variant)
IsClear(event) == event.kind \in {"clear", "NewEvents"}

\* the handler is inside new_events, between preupdate and clear
InFrame == variant = "handler" /\ pc \in {"init_update", "update"}

\* the position of a handler method in the calls of a frame, 0 if absent
CallIndex(calls, method) ==
    IF \E i \in 1..Len(calls) : calls[i] = method
    THEN CHOOSE i \in 1..Len(calls) : calls[i] = method
    ELSE 0

\* handler.resumed has run: the application has its window
HasResumed == handler.window # None

\* the step that processed the loop-exit notification
IsExit(event) == event.kind \in {"exiting", "LoopExiting"}

\* the application is looking at the state: inside handler.update (handler
\* variant), or pass_event has just returned true (event variant)
AtUpdate ==
    \/ variant = "handler" /\ pc \in {"init_update", "update"}
    \/ variant = "event" /\ is_update

\* K is down and its press edge has been consumed
Down(s, k) == held(s, k) /\ ~pressed(s, k)

----------------------------------------------------------------------------
(* C1 as stated: once K is held with its press edge cleared, held(K) stays *)
(* true and pressed(K) stays false over every step that is not a release   *)
(* event for K.                                                           *)
C1_UntilReleaseOnly ==
    [][\A k \in Inputs :
         (Down(raw, k) /\ ~IsRelease(last_event', k)) => Down(raw', k)]_vars

(* C1, amended: a frame-clear leaves held(K) as it is and pressed(K)       *)
(* false; held(K) then stays true over every step that is neither a       *)
(* release event for K nor a FocusLost event, pressed(K) stays false over  *)
(* every step that is not a press event for K, and a release event for K   *)
(* leaves held(K) false.                                                   *)
C1_Lifecycle ==
    [][\A k \in Inputs :
         /\ IsClear(last_event') =>
                (held(raw', k) = held(raw, k) /\ ~pressed(raw', k))
         /\ (held(raw, k) /\ ~IsRelease(last_event', k)
                 /\ ~IsFocusLost(last_event')) => held(raw', k)
         /\ (~pressed(raw, k) /\ ~IsPress(last_event', k)) => ~pressed(raw', k)
         /\ IsRelease(last_event', k) => ~held(raw', k)]_vars

\* K was pressed, the frame was cleared, K is held without its press edge
C1_Witness ==
    \E k \in Inputs : IsClear(last_event) /\ Down(raw, k)

(* C2 as stated: no identity is in pressed and in released at once.        *)
C2_PressedReleasedDisjoint ==
    raw.keys_pressed \cap raw.keys_released = {}

(* C2, amended: a single event never puts an identity into both sets: a    *)
(* press event inserts into pressed and leaves released as it is, a        *)
(* release event inserts into released and leaves pressed as it is (an     *)
(* identity pressed and released between two clears is in both).           *)
C2_OneEdgePerEvent ==
    [][\A k \in Inputs :
         /\ IsPress(last_event', k) =>
                /\ raw'.keys_pressed = raw.keys_pressed \cup {k}
                /\ raw'.keys_released = raw.keys_released
         /\ IsRelease(last_event', k) =>
                /\ raw'.keys_released = raw.keys_released \cup {k}
                /\ raw'.keys_pressed = raw.keys_pressed]_vars

\* a release event has just put K into released while K is still in pressed
C2_Witness ==
    \E k \in Inputs :
        IsRelease(last_event, k) /\ pressed(raw, k) /\ released(raw, k)

(* C3 as stated: every identity is in no set, in held only, in held and    *)
(* pressed only, or in released only.                                     *)
C3_FourCombinations ==
    \A k \in Inputs :
        \/ ~held(raw, k) /\ ~pressed(raw, k) /\ ~released(raw, k)
        \/ held(raw, k) /\ ~pressed(raw, k) /\ ~released(raw, k)
        \/ held(raw, k) /\ pressed(raw, k) /\ ~released(raw, k)
        \/ ~held(raw, k) /\ ~pressed(raw, k) /\ released(raw, k)

(* C3, amended: right after a press event for K, K is in held and in       *)
(* pressed; right after a release event for K, K is in released and not in *)
(* held; right after a frame-clear K is not in pressed and, in the handler *)
(* variant, not in released; and in the handler variant an identity that   *)
(* is in held and in released is also in pressed.  Pressed is not always a *)
(* subset of held, and released is not always disjoint from pressed.       *)
C3_MembershipAfterEvent ==
    \A k \in Inputs :
        /\ IsPress(last_event, k) => (held(raw, k) /\ pressed(raw, k))
        /\ IsRelease(last_event, k) => (~held(raw, k) /\ released(raw, k))
        /\ IsClear(last_event) => ~pressed(raw, k)
        /\ last_event.kind = "clear" => ~released(raw, k)
        /\ (variant = "handler" /\ held(raw, k) /\ released(raw, k))
               => pressed(raw, k)

\* K was released and pressed again within one frame: it is in all three sets
C3_Witness ==
    \E k \in Inputs :
        IsPress(last_event, k) /\ held(raw, k) /\ pressed(raw, k)
            /\ released(raw, k)

(* C4: a FocusLost event empties held and leaves released unchanged.       *)
C4_FocusLossSafety ==
    [][IsFocusLost(last_event') =>
           /\ raw'.keys_held = {}
           /\ raw'.keys_released = raw.keys_released]_vars

\* focus was lost while K, pressed in this frame and never released, was
\* down: K is neither held nor released
C4_Witness ==
    \E k \in Inputs :
        IsFocusLost(last_event) /\ pressed(raw, k) /\ ~held(raw, k)
            /\ ~released(raw, k)

(* C5: at every application update pressed(K) is true exactly for the      *)
(* identities the host sent a press event for since the previous update.   *)
C5_PressedEdgePerFrame ==
    AtUpdate => raw.keys_pressed = press_delivered

\* an update that reports a press, and with K still held from a press of an
\* earlier frame that is not reported again
C5_Witness ==
    AtUpdate /\ raw.keys_pressed # {}
        /\ \E k \in Inputs : Down(raw, k)

(* C6: released is edge-triggered: after the frame-clear no identity is in *)
(* released.                                                              *)
C6_ReleasedClearedEachFrame ==
    IsClear(last_event) => raw.keys_released = {}

(* C7 as stated: the clear step leaves released unchanged.                 *)
C7_ClearKeepsReleased ==
    [][IsClear(last_event') => raw'.keys_released = raw.keys_released]_vars

(* C7, amended: RawInputManager::clear of the event variant leaves         *)
(* released unchanged; RawInputManagerState::clear of the handler variant  *)
(* empties it.                                                            *)
C7_ClearReleasedPerVariant ==
    [][/\ last_event'.kind = "NewEvents" =>
              raw'.keys_released = raw.keys_released
       /\ last_event'.kind = "clear" => raw'.keys_released = {}]_vars

\* the event variant has cleared the frame and released still holds K
C7_Witness ==
    last_event.kind = "NewEvents" /\ raw.keys_released # {}

(* C8: after clear, pressed is empty, mouse_motion and mouse_wheel_delta   *)
(* are (0,0), resize is none and close_requested is false.                 *)
C8_ClearResets ==
    IsClear(last_event) =>
        /\ raw.keys_pressed = {}
        /\ mouse_motion(raw) = <<0, 0>>
        /\ raw.mouse_wheel_delta = <<0, 0>>
        /\ resized(raw) = None
        /\ ~close_requested(raw)

\* clear has run in a frame that had input: a key is still held and the
\* cursor has moved
C8_Witness ==
    IsClear(last_event) /\ raw.keys_held # {}
        /\ mouse_position(raw) # <<0, 0>>

(* C9: clear leaves held, mouse_position, loop_exiting, start, last_update *)
(* and update_delta unchanged.                                             *)
C9_ClearPreserves ==
    [][IsClear(last_event') =>
           /\ raw'.keys_held = raw.keys_held
           /\ raw'.mouse_position = raw.mouse_position
           /\ raw'.loop_exiting = raw.loop_exiting
           /\ raw'.start = raw.start
           /\ raw'.last_update = raw.last_update
           /\ raw'.update_delta = raw.update_delta]_vars

\* clear has run with a key held, the cursor moved, the loop exiting and a
\* non-zero frame delta, all still there
C9_Witness ==
    IsClear(last_event) /\ raw.keys_held # {}
        /\ mouse_position(raw) # <<0, 0>> /\ loop_exiting(raw)
        /\ delta_time(raw) > 0 /\ game_time(raw) > 0

(* C10: loop_exiting is false until the loop-exit notification is          *)
(* processed, true right after it, and never goes back to false.           *)
C10_LoopExitingTerminal ==
    /\ ~loop_exiting(raw)
    /\ [][/\ loop_exiting(raw) => loop_exiting(raw')
          /\ IsExit(last_event') => loop_exiting(raw')
          /\ (~loop_exiting(raw) /\ loop_exiting(raw')) => IsExit(last_event')
         ]_vars

\* the loop is exiting and a later frame-clear has left the flag set
C10_Witness ==
    loop_exiting(raw) /\ IsClear(last_event)

(* C11: close_requested is true right after a CloseRequested event, keeps  *)
(* its value over every step that is neither a CloseRequested event nor a  *)
(* clear, and is false right after a clear.                                *)
C11_CloseRequestedUntilClear ==
    [][/\ last_event'.kind = "CloseRequested" => close_requested(raw')
       /\ IsClear(last_event') => ~close_requested(raw')
       /\ (last_event'.kind # "CloseRequested" /\ ~IsClear(last_event'))
              => close_requested(raw') = close_requested(raw)]_vars

\* a close request is still pending after a later, different event
C11_Witness ==
    close_requested(raw) /\ IsPress(last_event, Key("KeyA"))

Plus(a, b) == <<a[1] + b[1], a[2] + b[2]>>

(* C12: mouse_motion is the componentwise sum of the MouseMotion deltas    *)
(* received since the last clear: a MouseMotion event adds its delta, a    *)
(* clear resets it to (0,0), and no other step changes it.                 *)
C12_MotionAccumulates ==
    [][/\ last_event'.kind = "MouseMotion" =>
              mouse_motion(raw') = Plus(mouse_motion(raw), last_event'.delta)
       /\ IsClear(last_event') => mouse_motion(raw') = <<0, 0>>
       /\ (last_event'.kind # "MouseMotion" /\ ~IsClear(last_event'))
              => mouse_motion(raw') = mouse_motion(raw)]_vars

\* deltas (1,2) and (3,4) within one frame have summed to (4,6)
C12_Witness ==
    last_event = MouseMotion(<<3, 4>>) /\ mouse_motion(raw) = <<4, 6>>

(* C13: resized() is the size of the most recent Resized event since the   *)
(* last clear: a Resized event overwrites it, a clear resets it to none,   *)
(* and no other step changes it.                                           *)
C13_ResizeLastWriteWins ==
    [][/\ last_event'.kind = "Resized" =>
              resized(raw') = Some(last_event'.size)
       /\ IsClear(last_event') => resized(raw') = None
       /\ (last_event'.kind # "Resized" /\ ~IsClear(last_event'))
              => resized(raw') = resized(raw)]_vars

\* a pending size is reported after a later, different event
C13_Witness ==
    resized(raw) = Some(<<640, 480>>) /\ last_event.kind = "CursorMoved"

(* C14: mouse_position is (0,0) until the first CursorMoved event, is the  *)
(* event's coordinate right after a CursorMoved event, and is changed by   *)
(* no other step, frame boundaries and clears included.                    *)
C14_PositionPersists ==
    /\ mouse_position(raw) = <<0, 0>>
    /\ [][/\ last_event'.kind = "CursorMoved" =>
                 mouse_position(raw') = last_event'.position
          /\ last_event'.kind # "CursorMoved" =>
                 mouse_position(raw') = mouse_position(raw)]_vars

\* the position of an earlier frame survives a clear
C14_Witness ==
    IsClear(last_event) /\ mouse_position(raw) = <<2, 3>>

(* C15: mouse_wheel_delta is the componentwise sum of the line-delta       *)
(* MouseWheel events since the last clear; a MouseWheel event of another   *)
(* unit changes nothing at all.                                            *)
C15_WheelLineDeltaOnly ==
    [][/\ (last_event'.kind = "MouseWheel" /\ last_event'.unit = "LineDelta")
              => raw'.mouse_wheel_delta =
                     Plus(raw.mouse_wheel_delta, last_event'.delta)
       /\ (last_event'.kind = "MouseWheel" /\ last_event'.unit # "LineDelta")
              => raw' = raw
       /\ IsClear(last_event') => raw'.mouse_wheel_delta = <<0, 0>>
       /\ (last_event'.kind # "MouseWheel" /\ ~IsClear(last_event'))
              => raw'.mouse_wheel_delta = raw.mouse_wheel_delta]_vars

\* two line deltas have summed to (1,1) and a pixel delta has left them there
C15_Witness ==
    /\ last_event.kind = "MouseWheel" /\ last_event.unit = "PixelDelta"
    /\ raw.mouse_wheel_delta = <<1, 1>>

\* the step that processed the frame boundary: the first half of new_events
\* or InputManagerState::preupdate (handler variant), or
\* pass_event(AboutToWait) (event variant)
IsFrameBoundary(event) ==
    event.kind \in {"new_events", "preupdate", "AboutToWait"}

(* C16: at a frame boundary with clock reading now, update_delta becomes   *)
(* now - last_update, or zero when now is earlier than last_update, and    *)
(* last_update becomes now.                                                *)
C16_SaturatingDelta ==
    [][IsFrameBoundary(last_event') =>
           /\ raw'.update_delta =
                  IF last_event'.now >= raw.last_update
                  THEN last_event'.now - raw.last_update
                  ELSE 0
           /\ raw'.update_delta >= 0
           /\ raw'.last_update = last_event'.now]_vars

\* a frame boundary has read a clock value earlier than start: the delta is
\* zero and last_update went back
C16_Witness ==
    /\ IsFrameBoundary(last_event)
    /\ last_event.now < raw.start
    /\ raw.last_update = last_event.now
    /\ raw.update_delta = 0

(* C17: every step that is not a frame boundary leaves last_update,        *)
(* update_delta, game_time, the accumulated time and smooth_frame_rate    *)
(* unchanged.                                                             *)
C17_TimingOnlyAtBoundary ==
    [][~IsFrameBoundary(last_event') =>
           /\ raw'.last_update = raw.last_update
           /\ raw'.update_delta = raw.update_delta
           /\ game_time(raw') = game_time(raw)
           /\ im'.time = im.time
           /\ im'.smooth_frame_rate = im.smooth_frame_rate]_vars

\* time has advanced at a boundary and a later input event has left it alone
C17_Witness ==
    /\ im.time > 0 /\ im.smooth_frame_rate # Fin(0, 1)
    /\ raw.update_delta > 0
    /\ last_event.kind = "MouseMotion"

----------------------------------------------------------------------------
(* Vocabulary of the binding properties *)

NoDuplicates(list) == \A i, j \in DOMAIN list : list[i] = list[j] => i = j

Count(list, k) == Cardinality({i \in DOMAIN list : list[i] = k})

\* x occurs before y in list
Before(list, x, y) ==
    \E i, j \in DOMAIN list : i < j /\ list[i] = x /\ list[j] = y

IsBind(event) == event.kind = "bind"
IsUnbind(event) == event.kind = "unbind"

----------------------------------------------------------------------------
(* C18: binding lists are duplicate-free: after any sequence of bind and   *)
(* unbind calls transform(action) contains each Input Identity at most     *)
(* once; after bind(k, a) the list of a holds exactly one occurrence of k, *)
(* and a second bind(k, a) leaves the whole table as it is.                *)
C18_DuplicateFree ==
    /\ [](\A a \in Binds : NoDuplicates(transform(bindings, a)))
    /\ [][IsBind(last_event') =>
              /\ Count(transform(bindings', last_event'.input),
                       last_event'.key) = 1
              /\ bind(bindings', last_event'.key, last_event'.input)
                     = bindings'
              /\ last_event' = last_event => bindings' = bindings]_vars

\* bind(k, a) was called on a list that already held k, next to another
\* identity
C18_Witness ==
    /\ IsBind(last_event)
    /\ Contains(last_event.before, last_event.key)
    /\ Len(last_event.before) = 2
    /\ transform(bindings, last_event.input) = last_event.before

(* C19: after unbind(k, a), transform(a) contains no occurrence of k and   *)
(* contains every other identity it contained before, in the same relative *)
(* order; a newly bound identity is appended at the end of the list.       *)
C19_UnbindKeepsOrder ==
    [][LET k == last_event'.key
           old == transform(bindings, last_event'.input)
           new == transform(bindings', last_event'.input)
       IN  /\ IsUnbind(last_event') =>
                  /\ ~Contains(new, k)
                  /\ \A x \in BoundInputs \ {k} :
                         Contains(new, x) = Contains(old, x)
                  /\ \A x, y \in BoundInputs \ {k} :
                         Before(new, x, y) = Before(old, x, y)
           /\ (IsBind(last_event') /\ ~Contains(old, k)) =>
                  /\ Len(new) = Len(old) + 1
                  /\ new[Len(new)] = k
                  /\ SubSeq(new, 1, Len(old)) = old]_vars

\* unbind removed the first of three identities: the other two remain
C19_Witness ==
    /\ IsUnbind(last_event)
    /\ Len(last_event.before) = 3
    /\ last_event.before[1] = last_event.key
    /\ transform(bindings, last_event.input)
           = SubSeq(last_event.before, 2, 3)

(* C20: for an action that was never bound, or whose bindings were all     *)
(* unbound, transform is the empty list and pressed, held and released of  *)
(* the action are false whatever the raw state is; unbind on an action     *)
(* with no bindings goes through and leaves every list as it was.          *)
C20_UnboundQueriesDefault ==
    /\ [](\A a \in Binds :
            (a \notin DOMAIN bindings \/ bindings[a] = <<>>) =>
                /\ transform(bindings, a) = <<>>
                /\ ~im_pressed(bindings, raw, a)
                /\ ~im_held(bindings, raw, a)
                /\ ~im_released(bindings, raw, a))
    /\ [][(IsUnbind(last_event')
              /\ transform(bindings, last_event'.input) = <<>>) =>
              \A a \in Binds :
                  transform(bindings', a) = transform(bindings, a)]_vars

\* a key is held and bound to one action, which reports it; unbind was
\* called on the other action, which has no bindings and reports nothing
C20_Witness ==
    /\ IsUnbind(last_event)
    /\ last_event.before = <<>>
    /\ transform(bindings, last_event.input) = <<>>
    /\ held(raw, Key("KeyA"))
    /\ \E a \in Binds : im_held(bindings, raw, a)

(* C21: for every action a, pressed(a) / held(a) / released(a) of the      *)
(* Input Manager is true if and only if at least one Input Identity in     *)
(* transform(a) satisfies the same query of the raw state.                 *)
C21_AnyBoundIdentity ==
    \A a \in Binds :
        /\ im_pressed(bindings, raw, a) <=>
               \E k \in Inputs : Contains(transform(bindings, a), k)
                                     /\ pressed(raw, k)
        /\ im_held(bindings, raw, a) <=>
               \E k \in Inputs : Contains(transform(bindings, a), k)
                                     /\ held(raw, k)
        /\ im_released(bindings, raw, a) <=>
               \E k \in Inputs : Contains(transform(bindings, a), k)
                                     /\ released(raw, k)

\* an action bound to two identities reports the press of the second one,
\* an action bound to the other identity alone reports nothing
C21_Witness ==
    \E a, b \in Binds :
        /\ transform(bindings, a) = <<Mouse("Left"), Key("KeyA")>>
        /\ transform(bindings, b) = <<Mouse("Left")>>
        /\ pressed(raw, Key("KeyA")) /\ ~pressed(raw, Mouse("Left"))
        /\ im_pressed(bindings, raw, a) /\ ~im_pressed(bindings, raw, b)

----------------------------------------------------------------------------
(* Vocabulary of the axis properties *)

\* the axis pairs an application asks for
AxisPairs ==
    {AxisBind("Up", "Down"), AxisBind("Right", "Left"), AxisBind("Down", "Up")}

\* the squared magnitude of a vector of values x / sqrt(q)
RECURSIVE SqrMagnitude(_)
SqrMagnitude(vec) ==
    IF vec = <<>>
    THEN Fin(0, 1)
    ELSE FAdd(Fin(Head(vec).num * Head(vec).num, Head(vec).sq),
              SqrMagnitude(Tail(vec)))

IsZeroVector(vec) == \A i \in DOMAIN vec : vec[i] = 0

(* C22: for any axis pair (pos, neg), axis = held(pos) - held(neg): 1 when *)
(* only pos is held, -1 when only neg is held, 0 when neither or both are  *)
(* held, so always in {-1, 0, 1}.                                          *)
C22_AxisIsDifference ==
    \A pos, neg \in AxisActions :
        /\ axis(variant, bindings, raw, AxisBind(pos, neg))
               = One(im_held(bindings, raw, pos))
                     - One(im_held(bindings, raw, neg))
        /\ axis(variant, bindings, raw, AxisBind(pos, neg)) \in {-1, 0, 1}

(* C23: the normalized N-D axis is the exact zero vector when every        *)
(* component axis is 0, and otherwise the component vector divided by its  *)
(* length, of squared magnitude 1.                                         *)
C23_NormalizedAxis ==
    \A p1, p2 \in AxisPairs : \A binds \in {<<p1, p2>>} \cup {<<p1, p2, p3>> : p3 \in AxisPairs} :
        LET axes == axis_n(variant, bindings, raw, binds)
            norm == axis_n_norm(variant, bindings, raw, binds)
        IN  /\ DOMAIN norm = DOMAIN binds
            /\ IsZeroVector(axes) =>
                   /\ \A i \in DOMAIN norm : norm[i] = OverSqrt(0, 1)
                   /\ SqrMagnitude(norm) = Fin(0, 1)
            /\ ~IsZeroVector(axes) =>
                   /\ \A i \in DOMAIN norm :
                          norm[i] = OverSqrt(axes[i], sqr_mag(axes))
                   /\ SqrMagnitude(norm) = Fin(1, 1)

\* Up and Right are both held: the 2-D axis is (1,1), normalized to
\* (1/sqrt 2, 1/sqrt 2)
C23_Witness ==
    LET binds == <<AxisBind("Right", "Left"), AxisBind("Up", "Down")>>
    IN  /\ axis_n(variant, bindings, raw, binds) = <<1, 1>>
        /\ axis_n_norm(variant, bindings, raw, binds)
               = <<OverSqrt(1, 2), OverSqrt(1, 2)>>

----------------------------------------------------------------------------
(* Vocabulary of the timing properties *)

IsSetTimeScale(event) == event.kind = "set_time_scale"

\* time_scale as numerator and denominator
ScaleNum(m) == m.time_scale[2]
ScaleDen(m) == m.time_scale[3]

EveryIntervals == {Fin(2, 1), Fin(3, 1)}

\* a multiple of interval lies in (from, to]
Crosses(from, to, interval) ==
    (to * interval[3]) \div interval[2] > (from * interval[3]) \div interval[2]

(* C26: for interval > 0, every(interval), queried once per frame after    *)
(* the per-frame update, is true in exactly the frames in which the        *)
(* accumulated time has crossed a multiple of interval: once for each      *)
(* multiple, never zero times and never twice.                             *)
C26_EveryOncePerMultiple ==
    IsFrameBoundary(last_event) =>
        \A interval \in EveryIntervals :
            every(im, raw, interval)
                <=> Crosses(im.time - im_delta_time(im, raw), im.time, interval)

\* |x - y| for finite x and y
AbsDiff(x, y) == Fin(Abs(x[2] * y[3] - y[2] * x[3]), x[3] * y[3])

\* new is finite and strictly closer to target than the finite old
StrictlyCloser(new, old, target) ==
    /\ IsFin(new) /\ IsFin(old)
    /\ FLess(AbsDiff(new, target), AbsDiff(old, target))

IsFresh == last_event = NoEvent

(* C28: in a freshly created Raw Input State / Input Manager every         *)
(* identity is absent from held, pressed and released, so the three        *)
(* queries are false for every identity and every action, update_delta is  *)
(* zero, resize is none and close_requested and loop_exiting are false.    *)
C28_InitialState ==
    IsFresh =>
        /\ \A k \in Inputs :
               /\ k \notin raw.keys_held \cup raw.keys_pressed
                               \cup raw.keys_released
               /\ ~pressed(raw, k) /\ ~held(raw, k) /\ ~released(raw, k)
        /\ \A a \in Binds :
               /\ ~im_pressed(bindings, raw, a)
               /\ ~im_held(bindings, raw, a)
               /\ ~im_released(bindings, raw, a)
        /\ delta_time(raw) = 0
        /\ resized(raw) = None
        /\ ~close_requested(raw)
        /\ ~loop_exiting(raw)

\* a fresh manager whose two clock readings differ
C28_Witness ==
    IsFresh /\ pc = "start" /\ raw.last_update > raw.start

(* C29: a press event for an identity that is held and not in pressed is a *)
(* no-op: held, pressed and released are unchanged, so pressed(K) stays    *)
(* false for a key that is still down.                                     *)
C29_RepeatedPressNoOp ==
    [][\A k \in Inputs :
         (IsPress(last_event', k) /\ Down(raw, k)) =>
             /\ raw'.keys_held = raw.keys_held
             /\ raw'.keys_pressed = raw.keys_pressed
             /\ raw'.keys_released = raw.keys_released
             /\ ~pressed(raw', k)]_vars

\* C30: in the handler variant a new_events callback runs preupdate, then
\* handler.update, then handler.draw (skipped exactly when the cause is
\* Init), then clear: the step that enters the frame leaves the state as
\* preupdate left it and calls update first and draw second or not at all,
\* draw is called only once handler.resumed has run, and the only step out
\* of the frame is the clear, so update saw the state before it was cleared
C30_NewEventsOrder ==
    [][/\ (~InFrame /\ InFrame') =>
            /\ last_event'.kind = "new_events"
            /\ raw' = preupdate(raw, last_event'.now)
            /\ CallIndex(last_event'.calls, "update") = 1
            /\ CallIndex(last_event'.calls, "draw") =
                   IF last_event'.cause = "Init" THEN 0 ELSE 2
            /\ (CallIndex(last_event'.calls, "draw") # 0 => HasResumed)
       /\ InFrame =>
            /\ ~InFrame'
            /\ last_event'.kind = "clear"
            /\ raw' = state_clear(raw)]_vars

\* a frame after the first one: update and draw were both called, the
\* window exists, and the key pressed before the boundary is still visible
C30_Witness ==
    /\ InFrame
    /\ last_event.calls = <<"update", "draw">>
    /\ HasResumed
    /\ raw.keys_pressed # {}
    /\ raw.update_delta > 0

----------------------------------------------------------------------------
(* Vocabulary of the event-passing frame *)

\* the edge-triggered fields, which only clear() resets
Accumulators(s) ==
    <<s.keys_pressed, s.keys_released, s.mouse_motion, s.mouse_wheel_delta,
      s.resize, s.close_requested>>

\* C31: in the event-passing variant pass_event returns true exactly for
\* AboutToWait; time and smooth_frame_rate change on no other event; the
\* AboutToWait step leaves the edge-triggered fields as the input events
\* left them, no step but NewEvents takes an identity out of pressed or
\* released, and NewEvents is the step that clears, so every press
\* delivered since NewEvents is visible when pass_event returns true
C31_UpdateAtAboutToWait ==
    [][variant = "event" =>
         /\ is_update' = (last_event'.kind = "AboutToWait")
         /\ last_event'.kind # "AboutToWait" =>
                /\ im'.time = im.time
                /\ im'.smooth_frame_rate = im.smooth_frame_rate
         /\ last_event'.kind = "AboutToWait" =>
                /\ Accumulators(raw') = Accumulators(raw)
                /\ im'.time = im.time + im_delta_time(im, raw')
         /\ last_event'.kind # "NewEvents" =>
                /\ raw.keys_pressed \subseteq raw'.keys_pressed
                /\ raw.keys_released \subseteq raw'.keys_released
         /\ last_event'.kind = "NewEvents" => raw' = clear(raw)
         /\ is_update' => press_delivered' \subseteq raw'.keys_pressed]_vars

\* pass_event has just returned true for AboutToWait: the press and the
\* mouse motion delivered in the frame are visible and time has advanced
C31_Witness ==
    /\ variant = "event"
    /\ is_update
    /\ last_event.kind = "AboutToWait"
    /\ Key("KeyA") \in raw.keys_pressed
    /\ raw.mouse_motion # <<0, 0>>
    /\ raw.update_delta > 0
    /\ im.time > 0

\* C32: the addition variant of axis is held(pos) + held(neg): it is 0, 1
\* or 2, it is 2 exactly when both actions are held, and it equals the
\* subtraction variant's value exactly when the negative action is not held
C32_AdditionAxis ==
    variant = "event" =>
        \A pos, neg \in AxisActions :
            LET added == axis("event", bindings, raw, AxisBind(pos, neg))
                subtracted == axis("handler", bindings, raw, AxisBind(pos, neg))
            IN  /\ added = One(im_held(bindings, raw, pos))
                               + One(im_held(bindings, raw, neg))
                /\ added \in {0, 1, 2}
                /\ added = 2 <=> (im_held(bindings, raw, pos)
                                     /\ im_held(bindings, raw, neg))
                /\ added = subtracted <=> ~im_held(bindings, raw, neg)

\* Right and Left are bound to different identities and both are held: the
\* addition variant reports 2 where the subtraction variant reports 0
C32_Witness ==
    /\ variant = "event"
    /\ im_held(bindings, raw, "Right") /\ im_held(bindings, raw, "Left")
    /\ axis("event", bindings, raw, AxisBind("Right", "Left")) = 2
    /\ axis("handler", bindings, raw, AxisBind("Right", "Left")) = 0

----------------------------------------------------------------------------
(* Vocabulary of the ticker properties *)

IsTickerUpdate(event) == event.kind = "ticker_update"

\* C33: Ticker.update sets is_tick exactly when the ticker is not paused
\* and more than interval has passed since last; a tick sets last to now
\* and adds one to count, any other update leaves both; count is the number
\* of updates that reported a tick, no update reports a tick while paused,
\* and a tick that follows another is more than interval later
C33_TickerUpdate ==
    /\ [](ticker.count = tick_log.ticks)
    /\ [][IsTickerUpdate(last_event') =>
             LET now == last_event'.now
             IN  /\ is_tick(ticker') =
                        (~ticker.paused /\ now - ticker.last > ticker.interval)
                 /\ is_tick(ticker') =>
                        /\ ticker'.last = now
                        /\ ticker'.count = ticker.count + 1
                        /\ ~ticker.paused
                        /\ ticker.count > 0 =>
                               ticker'.last - ticker.last > ticker.interval
                 /\ ~is_tick(ticker') =>
                        /\ ticker'.last = ticker.last
                        /\ ticker'.count = ticker.count
                 /\ ticker'.interval = ticker.interval
                 /\ ticker'.paused = ticker.paused]_vars

\* an update has just reported the second tick of a ticker whose interval
\* is not zero
C33_Witness ==
    /\ IsTickerUpdate(last_event)
    /\ is_tick(ticker)
    /\ ticker.count = 2
    /\ ticker.interval > 0
    /\ ticker.last = last_event.now

----------------------------------------------------------------------------
(* Vocabulary of the frame-rate poisoning *)

\* the smoothed frame rate is infinite or NaN
IsPoisoned(m) == ~IsFin(m.smooth_frame_rate)

\* C34: with the default alpha, a frame boundary whose update_delta is
\* exactly zero (raw frame rate infinite) leaves smooth_frame_rate not
\* finite, and a smooth_frame_rate that is not finite is not finite after
\* any later step, whatever the length of the frames that follow
C34_ZeroFramePoisons ==
    [][/\ (IsFrameBoundary(last_event') /\ raw'.update_delta = 0) =>
            (frame_rate(raw') = Inf /\ IsPoisoned(im'))
       /\ IsPoisoned(im) => IsPoisoned(im')]_vars

\* a frame of one second has just ended and the smoothed frame rate is
\* still not finite, because of a frame of length zero before it
C34_Witness ==
    /\ IsFrameBoundary(last_event)
    /\ raw.update_delta = 1
    /\ frame_rate(raw) = Fin(1, 1)
    /\ IsPoisoned(im)
    /\ im.smooth_frame_rate_alpha = InputManagerDefault.smooth_frame_rate_alpha

\* C35: held is the set of identities whose most recent press or release
\* event is a press with no FocusLost event after it: it is empty in a
\* fresh manager, a press event for K puts K in, a release event for K
\* takes K out, a FocusLost event empties it, and every other step (frame
\* boundary, clear, motion, wheel, cursor, resize, close, loop exit, an
\* event for another identity) leaves K's membership as it is
C35_HeldCharacterised ==
    /\ [](IsFresh => raw.keys_held = {})
    /\ [][\A k \in Inputs :
             held(raw', k) =
                 CASE IsPress(last_event', k) -> TRUE
                   [] IsRelease(last_event', k) -> FALSE
                   [] IsFocusLost(last_event') -> FALSE
                   [] OTHER -> held(raw, k)]_vars

\* K was released and pressed again and is held; the cursor event that
\* followed left it held
C35_Witness ==
    \E k \in Inputs :
        /\ last_event.kind = "CursorMoved"
        /\ held(raw, k) /\ released(raw, k)
        /\ raw.resize # None

\* C36: a release event for an identity that is not held (never pressed,
\* or dropped from held by FocusLost) still puts it into released and
\* leaves held as it is
C36_ReleaseWithoutHold ==
    [][\A k \in Inputs :
         (IsRelease(last_event', k) /\ ~held(raw, k)) =>
             /\ released(raw', k)
             /\ raw'.keys_released = raw.keys_released \cup {k}
             /\ raw'.keys_held = raw.keys_held]_vars

\* a release event has put K into released in a frame that delivered no
\* press and in which nothing is held
C36_Witness ==
    \E k \in Inputs :
        /\ IsRelease(last_event, k)
        /\ raw.keys_released = {k}
        /\ raw.keys_held = {}
        /\ raw.keys_pressed = {}
        /\ press_delivered = {}

----------------------------------------------------------------------------
(* Vocabulary of the effect of one input event *)

IsInputEvent(event, k) == IsPress(event, k) \/ IsRelease(event, k)

\* the memberships of identity k in the three sets
Memberships(s, k) == <<held(s, k), pressed(s, k), released(s, k)>>

\* the fields that hold no identity
OtherFields(s) ==
    <<s.mouse_motion, s.mouse_position, s.mouse_wheel_delta, s.resize,
      s.close_requested, s.loop_exiting>>

\* C37: a press or release event for identity A leaves, for every other
\* identity B, B's membership in held, pressed and released as it was, and
\* leaves mouse_motion, mouse_position, mouse_wheel_delta, resize,
\* close_requested and loop_exiting as they were
C37_InputEventFrame ==
    [][\A a \in Inputs :
         IsInputEvent(last_event', a) =>
             /\ \A b \in Inputs \ {a} :
                    Memberships(raw', b) = Memberships(raw, b)
             /\ OtherFields(raw') = OtherFields(raw)]_vars

\* A has just been pressed while B is held from an earlier frame and the
\* pointer, wheel, resize and close fields all hold something
C37_Witness ==
    \E a \in Inputs : \E b \in Inputs \ {a} :
        /\ IsPress(last_event, a)
        /\ Memberships(raw, a) = <<TRUE, TRUE, FALSE>>
        /\ Down(raw, b)
        /\ raw.mouse_motion # <<0, 0>>
        /\ raw.mouse_position # <<0, 0>>
        /\ raw.mouse_wheel_delta # <<0, 0>>
        /\ raw.resize # None
        /\ raw.close_requested

----------------------------------------------------------------------------
(* Vocabulary of the comparison of the two variants *)

\* what the two applications can compare: every query but released
Comparable(obs) == [f \in DOMAIN obs \ {"keys_released"} |-> obs[f]]

\* both applications are looking at their state: the handler variant's
\* inside new_events, the event-passing variant's after the pass_event of
\* the AboutToWait before it returned true
BothObserved == variant = "both" /\ pc = "update" /\ is_update

\* C38: fed the same events, the handler variant observed inside
\* new_events and the event-passing variant observed at the AboutToWait
\* before it report the same held, pressed, mouse_motion, mouse_position,
\* mouse_wheel_delta, resized, close_requested and loop_exiting; the
\* released set of the event-passing variant, which never clears it,
\* contains the handler variant's and is the set of every identity the
\* host ever sent a release for; after LoopExiting both report
\* loop_exiting
C38_VariantsAgreeButReleased ==
    /\ (variant = "both" /\ pc = "update") => is_update
    /\ BothObserved =>
           /\ Comparable(Observe(raw)) = Comparable(Observe(twin.state))
           /\ raw.keys_released \subseteq twin.state.keys_released
           /\ twin.state.keys_released = twin.ever_released
    /\ (variant = "both" /\ pc = "exited") =>
           /\ loop_exiting(raw) /\ loop_exiting(twin.state)
           /\ raw.keys_held = twin.state.keys_held

\* an observation that reports a press, mouse motion and a release, where
\* the event-passing variant also still reports a release of an earlier
\* frame
C38_Witness ==
    /\ BothObserved
    /\ raw.keys_pressed # {}
    /\ raw.mouse_motion # <<0, 0>>
    /\ raw.keys_released # {}
    /\ raw.keys_released # twin.state.keys_released

----------------------------------------------------------------------------
(* C39: bindings of different actions are independent: bind(k, a) and      *)
(* unbind(k, a) leave transform(b) as it was for every action b other than *)
(* a, and an identity bound to several actions is reported by each of      *)
(* them in pressed, held and released.                                     *)
C39_ActionsIndependent ==
    /\ [][(IsBind(last_event') \/ IsUnbind(last_event')) =>
             \A b \in Binds \ {last_event'.input} :
                 transform(bindings', b) = transform(bindings, b)]_vars
    /\ [](\A k \in Inputs : \A a \in Binds :
             Contains(transform(bindings, a), k) =>
                 /\ pressed(raw, k) => im_pressed(bindings, raw, a)
                 /\ held(raw, k) => im_held(bindings, raw, a)
                 /\ released(raw, k) => im_released(bindings, raw, a))

\* K is bound to Up and to Down and is held, so both actions are held; the
\* call that bound K to Down found Up's list and left it as it was
C39_Witness ==
    \E k \in Inputs :
        /\ IsBind(last_event)
        /\ last_event.input = "Down" /\ last_event.key = k
        /\ ~Contains(last_event.before, k)
        /\ Contains(transform(bindings, "Up"), k)
        /\ Contains(transform(bindings, "Down"), k)
        /\ held(raw, k) /\ pressed(raw, k)
        /\ im_held(bindings, raw, "Up") /\ im_held(bindings, raw, "Down")
        /\ im_pressed(bindings, raw, "Up") /\ im_pressed(bindings, raw, "Down")

====
